---- MODULE Spec2Model ----
(***************************************************************************)
(* A model of src/src/cluster/ssh_manager.py: the server registry, the     *)
(* pool of SSH connections, single and parallel command execution on the   *)
(* ThreadPoolExecutor, and the background cleanup thread.                  *)
(*                                                                         *)
(* Python statements are atomic steps only where the code makes them so:   *)
(* a `with self._lock` block whose body reads and writes lock-protected    *)
(* data is one step, except that the registry updates of add_server and    *)
(* remove_server are split per statement (the readers take no lock) and    *)
(* the blocking connect() is a state of its own (the lock is held in it).  *)
(* Dictionaries are functions on their key set; the insertion order of a   *)
(* dict is not modelled, the order of a group's hostname list is.          *)
(* Time is kept per connection as the idle time now - last_used, which     *)
(* saturates one above connection_timeout (all the code ever compares).    *)
(***************************************************************************)
EXTENDS Integers, Sequences, FiniteSets, TLC

VARIABLES
    servers,      \* SSHManager.servers: hostname -> ServerInfo
    groups,       \* SSHManager.groups: group -> list of hostnames
    connections,  \* SSHManager.connections: hostname -> connection id
    conn,         \* the SSHConnection objects created so far, by id
    lock,         \* SSHManager._lock: its holder, or None
    pc,           \* each thread's position
    fr,           \* each thread's frame: arguments and locals
    batch,        \* each client's execute_command_parallel locals
    queue,        \* the executor's work queue
    ret,          \* the outcome of each thread's last completed call
    shutdown      \* whether the executor was shut down

vars == <<servers, groups, connections, conn, lock, pc, fr, batch, queue, ret, shutdown>>

----------------------------------------------------------------------------
(* Bounds and universes *)

None == "None"

Hosts == {"h1", "h2"}

GroupNames == {"g1", "g2"}

Clients == {"c1", "c2"}

\* The executor's worker threads: ThreadPoolExecutor(max_workers=max_connections).
Workers == {"w1", "w2"}

\* An executor of one worker.
SingleWorker == Cardinality({"w1"})

max_connections == Cardinality(Workers)

Threads == Clients \cup Workers

\* connection_timeout, in ticks of the model's clock.
connection_timeout == 1

\* How many connect handshakes may succeed in one behaviour (a later
\* handshake fails, as any handshake may).
MaxHandshakes == 2

\* The longest hostname list passed to execute_command_parallel.
MaxBatch == 2

\* Exit statuses a remote command may report.
RemoteCodes == {0, 1}

\* ServerInfo (the fields the manager reads; username, port and description
\* are carried along unread and left out).
ServerInfos ==
    [hostname : Hosts, group : GroupNames, enabled : BOOLEAN,
     password : {None, "pw"}, private_key_path : {None, "key"}]

\* The number of authentication methods a ServerInfo configures.
NumAuth(s) ==
    (IF s.password # None THEN 1 ELSE 0) + (IF s.private_key_path # None THEN 1 ELSE 0)

----------------------------------------------------------------------------
(* Registry: pure effects of the statements of add_server / remove_server *)

InList(x, l) == \E i \in 1..Len(l) : l[i] = x

\* list.remove(x): drops the first occurrence.
RECURSIVE ListRemove(_, _)
ListRemove(l, x) ==
    IF l = <<>> THEN <<>>
    ELSE IF Head(l) = x THEN Tail(l)
    ELSE <<Head(l)>> \o ListRemove(Tail(l), x)

\* del d[k]
DictDel(d, k) == [x \in DOMAIN d \ {k} |-> d[x]]

\* d[k] = v
DictSet(d, k, v) == [x \in DOMAIN d \cup {k} |-> IF x = k THEN v ELSE d[x]]

\* self.servers[server_info.hostname] = server_info
AddServers(sv, s) == DictSet(sv, s.hostname, s)

\* AddGroups without the membership test of line 250.
AddGroupsAlwaysAppend(gr, s) ==
    LET g0 == IF s.group \in DOMAIN gr THEN gr ELSE DictSet(gr, s.group, <<>>)
    IN  [g0 EXCEPT ![s.group] = Append(@, s.hostname)]

\* lines 247-251: create the group's list if missing, append the hostname
\* unless it is already listed there.
AddGroups(gr, s) ==
    LET g0 == IF s.group \in DOMAIN gr THEN gr ELSE DictSet(gr, s.group, <<>>)
    IN  IF InList(s.hostname, g0[s.group]) THEN g0
        ELSE [g0 EXCEPT ![s.group] = Append(@, s.hostname)]

\* lines 267-273: remove the hostname from the list of the group its record
\* names, and delete that group when its list is empty.
RemoveGroups(gr, g, h) ==
    IF g \in DOMAIN gr
    THEN LET l == IF InList(h, gr[g]) THEN ListRemove(gr[g], h) ELSE gr[g]
         IN  IF l = <<>> THEN DictDel(gr, g) ELSE [gr EXCEPT ![g] = l]
    ELSE gr

(* Readers (no lock) *)

get_server(h) == IF h \in DOMAIN servers THEN servers[h] ELSE None

get_group_servers(g) == IF g \in DOMAIN groups THEN groups[g] ELSE <<>>

list_groups == DOMAIN groups

\* list_servers(group): the records of the group's hostnames that are registered.
list_servers(g) ==
    LET hs == get_group_servers(g)
    IN  {servers[hs[i]] : i \in {j \in 1..Len(hs) : hs[j] \in DOMAIN servers}}

\* list_servers(): every record.
list_all_servers == {servers[h] : h \in DOMAIN servers}

----------------------------------------------------------------------------
(* Threads *)

\* host, conn, arg, task: the locals of the call; fresh: whether this call went
\* through connect(); prev, prevAlive: the connection the caller's previous
\* call to the same host ran on, and whether the lookup of this call found it
\* pooled and alive; prevCause: why the connect attempt of the caller's
\* previous call failed, if it did (history, read by no action).
\* lines 464-468: the counts get_statistics holds before it has taken any.
NoStats ==
    [total_servers |-> 0, enabled_servers |-> 0, active_connections |-> 0,
     total_groups |-> 0, locked |-> <<>>]

NoFrame ==
    [host |-> None, conn |-> 0, arg |-> None, task |-> None, fresh |-> FALSE,
     prev |-> 0, prevAlive |-> FALSE, prevCause |-> None, stats |-> NoStats]

\* fn: the function the tasks of the batch run; group: the group the batch was
\* resolved from, if any; order: the futures in the order as_completed yielded
\* them (both history, read by no action).
NoBatch ==
    [hostnames |-> <<>>, i |-> 0, futures |-> <<>>, results |-> <<>>,
     fn |-> None, group |-> None, order |-> <<>>]

NoRet == [op |-> None]

Init ==
    /\ servers = <<>>
    /\ groups = <<>>
    /\ connections = <<>>
    /\ conn = <<>>
    /\ lock = None
    /\ pc = [t \in Threads |-> "idle"]
    /\ fr = [t \in Threads |-> NoFrame]
    /\ batch = [t \in Clients |-> NoBatch]
    /\ queue = <<>>
    /\ ret = [t \in Clients |-> NoRet]
    /\ shutdown = FALSE

(* add_server *)

\* line 243-244: take the lock, store the record.
AddLock(t, s) ==
    /\ pc[t] = "idle"
    /\ lock = None
    /\ lock' = t
    /\ servers' = AddServers(servers, s)
    /\ pc' = [pc EXCEPT ![t] = "add_groups"]
    /\ fr' = [fr EXCEPT ![t] = [NoFrame EXCEPT !.arg = s]]
    /\ UNCHANGED <<groups, connections, conn, batch, queue, ret>>
    /\ UNCHANGED shutdown

\* lines 247-253: update the group index, release the lock, return.
AddGroupsStep(t) ==
    /\ pc[t] = "add_groups"
    /\ groups' = AddGroups(groups, fr[t].arg)
    /\ lock' = None
    /\ pc' = [pc EXCEPT ![t] = "returned"]
    /\ fr' = [fr EXCEPT ![t] = NoFrame]
    /\ ret' = [ret EXCEPT ![t] = [op |-> "add_server", arg |-> fr[t].arg]]
    /\ UNCHANGED <<servers, connections, conn, batch, queue>>
    /\ UNCHANGED shutdown

(* remove_server *)

\* Disconnected with the connection left marked connected.
DisconnectedStaysConnected(c, why) ==
    [c EXCEPT !.client = FALSE, !.active = FALSE, !.idle = 0, !.closed = why]

\* SSHConnection.disconnect: client.close() (which ends the transport),
\* client = None, connected = False. Every caller of disconnect() drops the
\* connection from the pool in the same critical section, and last_used is
\* read of pooled connections only: the idle time is not kept any further.
\* closed (history, read by no action) records why it was closed.
Disconnected(c, why) ==
    [c EXCEPT !.client = FALSE, !.connected = FALSE, !.active = FALSE, !.idle = 0,
              !.closed = why]

\* The caller takes the value its call returned (or the exception it raised).
Return(t) ==
    /\ pc[t] = "returned"
    /\ pc' = [pc EXCEPT ![t] = "idle"]
    /\ ret' = [ret EXCEPT ![t] = NoRet]
    /\ UNCHANGED <<servers, groups, connections, conn, lock, fr, batch, queue>>
    /\ UNCHANGED shutdown

\* RemovePooled that leaves the entry in the pool.
RemovePooledKeepsEntry(h) == connections

\* line 264: del self.connections[hostname]
RemovePooled(h) == DictDel(connections, h)

\* lines 257-264: take the lock; an unregistered hostname is a no-op; else
\* disconnect and drop the pooled connection.
RemLock(t, h) ==
    /\ pc[t] = "idle"
    /\ lock = None
    /\ IF h \in DOMAIN servers
       THEN /\ lock' = t
            /\ pc' = [pc EXCEPT ![t] = "rem_groups"]
            /\ fr' = [fr EXCEPT ![t] = [NoFrame EXCEPT !.host = h, !.arg = servers[h]]]
            /\ IF h \in DOMAIN connections
               THEN /\ conn' = [conn EXCEPT ![connections[h]] = Disconnected(@, "closed")]
                    /\ connections' = RemovePooled(h)
               ELSE UNCHANGED <<conn, connections>>
            /\ UNCHANGED ret
       ELSE UNCHANGED <<lock, pc, fr, conn, connections, ret>>
    /\ UNCHANGED <<servers, groups, batch, queue>>
    /\ UNCHANGED shutdown

\* lines 267-273
RemGroupsStep(t) ==
    /\ pc[t] = "rem_groups"
    /\ groups' = RemoveGroups(groups, fr[t].arg.group, fr[t].host)
    /\ pc' = [pc EXCEPT ![t] = "rem_del"]
    /\ UNCHANGED <<servers, connections, conn, lock, fr, batch, queue, ret>>
    /\ UNCHANGED shutdown

\* RemDel that returns with the lock still held.
RemDelKeepsLock(t) ==
    /\ pc[t] = "rem_del"
    /\ servers' = DictDel(servers, fr[t].host)
    /\ pc' = [pc EXCEPT ![t] = "idle"]
    /\ fr' = [fr EXCEPT ![t] = NoFrame]
    /\ UNCHANGED <<groups, connections, conn, lock, batch, queue, ret, shutdown>>

\* lines 275-276: delete the record, release the lock, return.
RemDel(t) ==
    /\ pc[t] = "rem_del"
    /\ servers' = DictDel(servers, fr[t].host)
    /\ lock' = None
    /\ pc' = [pc EXCEPT ![t] = "idle"]
    /\ fr' = [fr EXCEPT ![t] = NoFrame]
    /\ UNCHANGED <<groups, connections, conn, batch, queue, ret>>
    /\ UNCHANGED shutdown

----------------------------------------------------------------------------
(* Connections *)

\* A connection object after a successful connect(): lines 79-83, 134-136.
NewConnection(s) ==
    [host |-> s.hostname, server_info |-> s, connected |-> TRUE, client |-> TRUE,
     active |-> TRUE, idle |-> 0, closed |-> None]

\* SSHConnection.is_alive
is_alive(c) == c.connected /\ c.client /\ c.active

\* IdleExpired with >= for >.
IdleExpiredAtTimeout(c) == c.idle >= connection_timeout

\* line 336: current_time - conn.last_used > self.connection_timeout
IdleExpired(c) == c.idle > connection_timeout

Pooled(id) == \E h \in DOMAIN connections : connections[h] = id

(* CommandResult: hostname, return_code, error (None when unset) *)

\* execute_command, lines 355-363: no connection could be obtained.
NoConnectionResult(h) == [hostname |-> h, return_code |-> -1, error |-> "no_connection"]

\* SSHConnection.execute_command, lines 161-169.
NotConnectedResult(h) == [hostname |-> h, return_code |-> -1, error |-> "not_connected"]

\* SSHConnection.execute_command, lines 195-203: an exception was caught.
ExceptionResult(h) == [hostname |-> h, return_code |-> -1, error |-> "exception"]

\* SSHConnection.execute_command, lines 182-189.
RanResult(h, rc) == [hostname |-> h, return_code |-> rc, error |-> None]

----------------------------------------------------------------------------
(* Leaving execute_command: a client's call returns or raises to its caller, *)
(* a worker's task resolves its future.                                      *)

(* ServerStatus: hostname, online, error (None when unset) *)

\* check_server_status, lines 413-418.
OnlineStatus(h) == [hostname |-> h, online |-> TRUE, error |-> None]

\* check_server_status, lines 420-426 and 429-435.
OfflineStatus(h, e) == [hostname |-> h, online |-> FALSE, error |-> e]

\* What the command may have written to stderr: nothing, or some text.
Stderrs == {"", "stderr"}

\* The stderr of the CommandResult r that execute_command ended with (state
\* "done") or of none (state "raised"): the results the code builds for a
\* failure have stderr "", a command that ran wrote any of Stderrs. stderr is
\* read by line 425 alone, when return_code is not 0 and error is unset.
StderrsOf(state, r) ==
    IF state = "done" /\ r.error = None /\ r.return_code # 0 THEN Stderrs ELSE {""}

\* check_server_status that takes every command that ran for a live host,
\* whatever its exit status.
check_server_status_ignores_code(h, state, r, stderr) ==
    IF state = "raised" THEN OfflineStatus(h, "exception")
    ELSE IF r.error = None THEN OnlineStatus(h)
    ELSE OfflineStatus(h, r.error)

\* check_server_status(h), lines 408-435, from the outcome of its call of
\* execute_command: the result r (state "done") or an exception (state
\* "raised"). `result.error or result.stderr` is the error when it is set,
\* else the stderr.
check_server_status(h, state, r, stderr) ==
    IF state = "raised" THEN OfflineStatus(h, "exception")
    ELSE IF r.return_code = 0 THEN OnlineStatus(h)
    ELSE OfflineStatus(h, IF r.error # None THEN r.error ELSE stderr)

\* The task of a future ends: a task that runs execute_command resolves its
\* future with the result or with the exception, a task that runs
\* check_server_status resolves it with the ServerStatus.
Resolve(task, state, r) ==
    LET c == task[1]
        i == task[2]
        h == batch[c].futures[i].host
    IN  IF batch[c].fn = "check_server_status"
        THEN \E stderr \in StderrsOf(state, r) :
                batch' = [batch EXCEPT ![c].futures[i] =
                            [@ EXCEPT !.state = "done",
                                      !.result = check_server_status(h, state, r, stderr),
                                      !.probe = [state |-> state, result |-> r,
                                                 stderr |-> stderr]]]
        ELSE batch' = [batch EXCEPT ![c].futures[i] =
                         [@ EXCEPT !.state = state, !.result = r]]

SetFuture(t, state, r) == Resolve(fr[t].task, state, r)

\* execute_command returns r; cause (history, read by no action) is why its
\* connect attempt failed, if it made one that did.
FinishWith(t, r, cause) ==
    /\ pc' = [pc EXCEPT ![t] = IF t \in Clients THEN "returned" ELSE "idle"]
    /\ fr' = [fr EXCEPT ![t] = NoFrame]
    /\ IF t \in Clients
       THEN /\ ret' = [ret EXCEPT ![t] =
                         [op |-> "execute_command", arg |-> fr[t].host, raised |-> FALSE,
                          result |-> r, conn |-> fr[t].conn, fresh |-> fr[t].fresh,
                          prev |-> fr[t].prev, prevAlive |-> fr[t].prevAlive,
                          cause |-> cause, prevCause |-> fr[t].prevCause]]
            /\ UNCHANGED batch
       ELSE /\ SetFuture(t, "done", r)
            /\ UNCHANGED ret

Finish(t, r) == FinishWith(t, r, None)

Raise(t) ==
    /\ pc' = [pc EXCEPT ![t] = IF t \in Clients THEN "returned" ELSE "idle"]
    /\ fr' = [fr EXCEPT ![t] = NoFrame]
    /\ IF t \in Clients
       THEN /\ ret' = [ret EXCEPT ![t] =
                         [op |-> "execute_command", arg |-> fr[t].host, raised |-> TRUE,
                          result |-> None, conn |-> 0, fresh |-> fr[t].fresh,
                          prev |-> fr[t].prev, prevAlive |-> fr[t].prevAlive,
                          cause |-> None, prevCause |-> fr[t].prevCause]]
            /\ UNCHANGED batch
       ELSE /\ SetFuture(t, "raised", None)
            /\ UNCHANGED ret

(* execute_command(hostname, command) -> _get_connection -> conn.execute_command *)

\* _get_connection, lines 300-301 (outside the lock), for a call of
\* execute_command(h, command) whose frame is f: an unregistered hostname gets
\* no connection, a registered one goes on to the lock.
GcCheck(t, f) ==
    IF f.host \notin DOMAIN servers
    THEN /\ pc' = [pc EXCEPT ![t] = IF t \in Clients THEN "returned" ELSE "idle"]
         /\ fr' = [fr EXCEPT ![t] = NoFrame]
         /\ IF t \in Clients
            THEN /\ ret' = [ret EXCEPT ![t] =
                              [op |-> "execute_command", arg |-> f.host, raised |-> FALSE,
                               result |-> NoConnectionResult(f.host), conn |-> 0,
                               fresh |-> FALSE, prev |-> f.prev, prevAlive |-> FALSE,
                               cause |-> None, prevCause |-> f.prevCause]]
                 /\ UNCHANGED batch
            ELSE /\ Resolve(f.task, "done", NoConnectionResult(f.host))
                 /\ UNCHANGED ret
    ELSE /\ pc' = [pc EXCEPT ![t] = "gc_lock"]
         /\ fr' = [fr EXCEPT ![t] = f]
         /\ IF t \in Clients
            THEN ret' = [ret EXCEPT ![t] = NoRet]
            ELSE UNCHANGED ret
         /\ UNCHANGED batch

\* A client calls execute_command(h, command), up to line 301.
ExecCall(t, h) ==
    /\ t \in Clients
    /\ pc[t] = "idle"
    /\ GcCheck(t, [NoFrame EXCEPT !.host = h])
    /\ UNCHANGED <<servers, groups, connections, conn, lock, queue>>
    /\ UNCHANGED shutdown

\* A client that holds the result of execute_command(h, command), which ran on
\* a connection, calls execute_command(h, command) again.
ExecCallAgain(t) ==
    /\ t \in Clients
    /\ pc[t] = "returned"
    /\ ret[t].op = "execute_command" /\ ret[t].conn # 0
    /\ GcCheck(t, [NoFrame EXCEPT !.host = ret[t].arg, !.prev = ret[t].conn])
    /\ UNCHANGED <<servers, groups, connections, conn, lock, queue>>
    /\ UNCHANGED shutdown

\* A client whose call of execute_command(h, command) ended with a failed
\* connect attempt calls execute_command(h, command) again.
ExecCallRetry(t) ==
    /\ t \in Clients
    /\ pc[t] = "returned"
    /\ ret[t].op = "execute_command" /\ ret[t].cause # None
    /\ GcCheck(t, [NoFrame EXCEPT !.host = ret[t].arg, !.prevCause = ret[t].cause])
    /\ UNCHANGED <<servers, groups, connections, conn, lock, queue>>
    /\ UNCHANGED shutdown

\* ReusePooled without the liveness test of line 307.
ReuseEvenDead(h) == h \in DOMAIN connections

\* ReusePooled as a pool that never hands a connection out twice.
ReuseNever(h) == FALSE

\* ReusePooled that also wants the connection bound to the current record.
ReuseOnlyIfCurrent(h) ==
    /\ h \in DOMAIN connections
    /\ is_alive(conn[connections[h]])
    /\ h \in DOMAIN servers
    /\ conn[connections[h]].server_info = servers[h]

\* line 307: whether the pooled connection of h is handed out again.
ReusePooled(h) == h \in DOMAIN connections /\ is_alive(conn[connections[h]])

\* History: the connection of the caller's previous call is still the pooled
\* connection of the host, and alive, when this call looks the host up.
PrevAlive(t) ==
    /\ fr[t].prev # 0
    /\ fr[t].host \in DOMAIN connections
    /\ connections[fr[t].host] = fr[t].prev
    /\ conn[fr[t].prev].connected /\ conn[fr[t].prev].client /\ conn[fr[t].prev].active

\* _get_connection, lines 303-319: under the lock, hand out the pooled
\* connection if it is alive; else evict it, look the record up (KeyError if it
\* was removed since line 300), give up on a disabled host, create a connection
\* and enter connect() with the lock held.
GcLock(t) ==
    LET h == fr[t].host IN
    /\ pc[t] = "gc_lock"
    /\ lock = None
    /\ IF ReusePooled(h)
       THEN /\ pc' = [pc EXCEPT ![t] = "run"]
            /\ fr' = [fr EXCEPT ![t].conn = connections[h], ![t].prevAlive = PrevAlive(t)]
            /\ UNCHANGED <<connections, conn, lock, batch, ret>>
       ELSE /\ IF h \in DOMAIN connections
               THEN /\ conn' = [conn EXCEPT ![connections[h]] = Disconnected(@, "replaced")]
                    /\ connections' = DictDel(connections, h)
               ELSE UNCHANGED <<conn, connections>>
            /\ IF h \notin DOMAIN servers
               THEN Raise(t) /\ UNCHANGED lock
               ELSE IF ~servers[h].enabled
               THEN Finish(t, NoConnectionResult(h)) /\ UNCHANGED lock
               ELSE /\ lock' = t
                    /\ pc' = [pc EXCEPT ![t] = "connecting"]
                    /\ fr' = [fr EXCEPT ![t].arg = servers[h], ![t].fresh = TRUE,
                                        ![t].prevAlive = PrevAlive(t)]
                    /\ UNCHANGED <<batch, ret>>
    /\ UNCHANGED <<servers, groups, queue>>
    /\ UNCHANGED shutdown

\* SSHConnection.connect, lines 104-131: whether the record's credentials let
\* connect() reach the handshake; keyLoads is whether the key file exists and
\* loads.
ReachesHandshake(s, keyLoads) ==
    IF s.private_key_path # None THEN keyLoads
    ELSE s.password # None

\* SSHConnection.connect, why it returns False: the key file is missing or
\* does not load (lines 117-125) or no credentials are configured (lines
\* 129-131), or client.connect raised (lines 134, 140-146).
ConnectFailure(s, keyLoads) ==
    IF ReachesHandshake(s, keyLoads) THEN "network" ELSE "auth"

\* lines 320-324 with SSHConnection.connect: the handshake succeeds (the
\* connection is pooled and returned) or connect() returns False; the lock is
\* released either way.
Connect(t) ==
    /\ pc[t] = "connecting"
    /\ lock' = None
    /\ \E keyLoads \in BOOLEAN, handshake \in BOOLEAN :
         IF ReachesHandshake(fr[t].arg, keyLoads) /\ handshake /\ Len(conn) < MaxHandshakes
         THEN /\ conn' = Append(conn, NewConnection(fr[t].arg))
              /\ connections' = DictSet(connections, fr[t].host, Len(conn) + 1)
              /\ pc' = [pc EXCEPT ![t] = "run"]
              /\ fr' = [fr EXCEPT ![t].conn = Len(conn) + 1, ![t].arg = None]
              /\ UNCHANGED <<batch, ret>>
         ELSE /\ FinishWith(t, NoConnectionResult(fr[t].host),
                            ConnectFailure(fr[t].arg, keyLoads))
              /\ UNCHANGED <<conn, connections>>
    /\ UNCHANGED <<servers, groups, queue>>
    /\ UNCHANGED shutdown

\* SSHConnection.execute_command, lines 158-169: refuse a connection that is
\* not connected.
RunStart(t) ==
    /\ pc[t] = "run"
    /\ IF ~conn[fr[t].conn].connected \/ ~conn[fr[t].conn].client
       THEN Finish(t, NotConnectedResult(fr[t].host))
       ELSE /\ pc' = [pc EXCEPT ![t] = "send"]
            /\ UNCHANGED <<fr, batch, ret>>
    /\ UNCHANGED <<servers, groups, connections, conn, lock, queue>>
    /\ UNCHANGED shutdown

\* SSHConnection.execute_command, lines 171-172 and 191-203: exec_command
\* opens a channel and sends the command; on a client that was set to None or
\* a transport that is not active it raises, which is caught.
RunSend(t) ==
    /\ pc[t] = "send"
    /\ IF conn[fr[t].conn].client /\ conn[fr[t].conn].active
       THEN /\ pc' = [pc EXCEPT ![t] = "inflight"]
            /\ UNCHANGED <<fr, batch, ret>>
       ELSE Finish(t, ExceptionResult(fr[t].host))
    /\ UNCHANGED <<servers, groups, connections, conn, lock, queue>>
    /\ UNCHANGED shutdown

\* What the transport lets a command in flight end with: an exit status of the
\* remote shell (one of codes) while the transport is up; once the transport is closed or
\* dropped the channel reports end of file and the status -1.
ExitStatuses(c, codes) == IF c.client /\ c.active THEN codes ELSE {-1}

\* SSHConnection.execute_command, lines 175-203: the command ends with an exit
\* status (last_used is refreshed), or an exception is caught.
RunEnd(t, codes) ==
    LET id == fr[t].conn IN
    /\ pc[t] = "inflight"
    /\ \/ \E rc \in ExitStatuses(conn[id], codes) :
            /\ conn' = [conn EXCEPT ![id].idle = 0]
            /\ Finish(t, RanResult(fr[t].host, rc))
       \/ /\ Finish(t, ExceptionResult(fr[t].host))
          /\ UNCHANGED conn
    /\ UNCHANGED <<servers, groups, connections, lock, queue>>
    /\ UNCHANGED shutdown

----------------------------------------------------------------------------
(* execute_command_parallel and the executor *)

\* Sequences over S of length 1..n.
RECURSIVE SeqsUpTo(_, _)
SeqsUpTo(S, n) ==
    IF n = 0 THEN {}
    ELSE LET shorter == SeqsUpTo(S, n - 1)
         IN  {<<x>> : x \in S} \cup shorter \cup {Append(q, x) : q \in shorter, x \in S}

HostLists == SeqsUpTo(Hosts, MaxBatch)

\* A client calls execute_command_parallel(hostnames, command): lines 370-373.
ParCall(t, hs) ==
    /\ t \in Clients
    /\ pc[t] = "idle"
    /\ batch[t] = NoBatch
    /\ pc' = [pc EXCEPT ![t] = "submit"]
    /\ batch' = [batch EXCEPT ![t] = [NoBatch EXCEPT !.hostnames = hs, !.i = 1,
                                                      !.fn = "execute_command"]]
    /\ UNCHANGED <<servers, groups, connections, conn, lock, fr, queue, ret>>
    /\ UNCHANGED shutdown

\* line 375: which hostnames get a task.
Submits(h) == h \in DOMAIN servers /\ servers[h].enabled

\* executor.submit after executor.shutdown raises RuntimeError out of the
\* call; the tasks submitted before it stay with the executor.
SubmitRaise(t, op) ==
    /\ pc' = [pc EXCEPT ![t] = "returned"]
    /\ ret' = [ret EXCEPT ![t] =
                 [op |-> op, arg |-> batch[t].hostnames, raised |-> TRUE,
                  results |-> <<>>, futures |-> batch[t].futures,
                  group |-> batch[t].group, order |-> batch[t].order]]
    /\ UNCHANGED <<batch, queue>>

\* lines 374-377, one iteration: submit a task for the next hostname if it is
\* registered and enabled; after the last hostname go on to as_completed.
Submit(t) ==
    LET b == batch[t] IN
    /\ pc[t] = "submit"
    /\ IF Submits(b.hostnames[b.i]) /\ shutdown
       THEN SubmitRaise(t, "execute_command_parallel")
       ELSE /\ IF Submits(b.hostnames[b.i])
               THEN /\ batch' = [batch EXCEPT
                                   ![t].futures = Append(@, [host |-> b.hostnames[b.i],
                                                             state |-> "pending",
                                                             result |-> None]),
                                   ![t].i = @ + 1]
                    /\ queue' = Append(queue, <<t, Len(b.futures) + 1>>)
               ELSE /\ batch' = [batch EXCEPT ![t].i = @ + 1]
                    /\ UNCHANGED queue
            /\ pc' = [pc EXCEPT ![t] = IF b.i = Len(b.hostnames) THEN "collect" ELSE "submit"]
            /\ UNCHANGED ret
    /\ UNCHANGED <<servers, groups, connections, conn, lock, fr>>
    /\ UNCHANGED shutdown

\* Free workers are interchangeable: the first of them is the one that takes
\* the next task.
WorkerRank(w) == IF w = "w1" THEN 1 ELSE 2

\* A free worker takes the oldest queued task and runs execute_command up to
\* line 301 of _get_connection.
TaskStart(w) ==
    /\ w \in Workers
    /\ pc[w] = "idle"
    /\ \A v \in Workers : pc[v] = "idle" => WorkerRank(w) <= WorkerRank(v)
    /\ queue # <<>>
    /\ GcCheck(w, [NoFrame EXCEPT
                     !.host = batch[Head(queue)[1]].futures[Head(queue)[2]].host,
                     !.task = Head(queue)])
    /\ queue' = Tail(queue)
    /\ UNCHANGED <<servers, groups, connections, conn, lock>>
    /\ UNCHANGED shutdown

\* Collected with the map assigned anew instead of updated.
CollectedLastOnly(results, f) ==
    DictSet(<<>>, f.host,
            IF f.state = "raised" THEN ExceptionResult(f.host) ELSE f.result)

\* Collected with the exception of a task not turned into a result.
CollectedDropsRaised(results, f) ==
    IF f.state = "raised" THEN results ELSE DictSet(results, f.host, f.result)

\* lines 381-394: future.result() is stored under the future's hostname; an
\* exception of the task is turned into a CommandResult with its message.
Collected(results, f) ==
    DictSet(results, f.host,
            IF f.state = "raised" THEN ExceptionResult(f.host) ELSE f.result)

\* lines 380-394, one iteration of as_completed: take a finished future.
Collect(t, k) ==
    /\ pc[t] = "collect"
    /\ k \in 1..Len(batch[t].futures)
    /\ batch[t].futures[k].state \in {"done", "raised"}
    /\ batch' = [batch EXCEPT
                   ![t].results = Collected(@, batch[t].futures[k]),
                   ![t].order = Append(@, k),
                   ![t].futures[k].state =
                       IF @ = "done" THEN "collected" ELSE "collected_raised"]
    /\ UNCHANGED <<servers, groups, connections, conn, lock, pc, fr, queue, ret>>
    /\ UNCHANGED shutdown

AllCollected(fs) ==
    \A k \in 1..Len(fs) : fs[k].state \in {"collected", "collected_raised"}

\* line 396: every future was yielded; return the map. The futures are kept
\* beside the result as the record of what each task did.
ParReturn(t) ==
    /\ pc[t] = "collect"
    /\ AllCollected(batch[t].futures)
    /\ pc' = [pc EXCEPT ![t] = "returned"]
    /\ ret' = [ret EXCEPT ![t] =
                 [op |-> "execute_command_parallel", arg |-> batch[t].hostnames,
                  raised |-> FALSE,
                  results |-> batch[t].results, futures |-> batch[t].futures,
                  group |-> batch[t].group, order |-> batch[t].order]]
    /\ batch' = [batch EXCEPT ![t] = NoBatch]
    /\ UNCHANGED <<servers, groups, connections, conn, lock, fr, queue>>
    /\ UNCHANGED shutdown

(* execute_command_on_group *)

\* A client calls execute_command_on_group(g, command): line 401 resolves the
\* group to its hostname list, line 402 passes it to execute_command_parallel
\* (lines 370-373), whose loop over an empty list ends at once.
GroupCall(t, g) ==
    /\ t \in Clients
    /\ pc[t] = "idle"
    /\ batch[t] = NoBatch
    /\ pc' = [pc EXCEPT ![t] = IF get_group_servers(g) = <<>> THEN "collect" ELSE "submit"]
    /\ batch' = [batch EXCEPT ![t] = [NoBatch EXCEPT !.hostnames = get_group_servers(g),
                                                      !.i = 1,
                                                      !.fn = "execute_command",
                                                      !.group = g]]
    /\ UNCHANGED <<servers, groups, connections, conn, lock, fr, queue, ret>>
    /\ UNCHANGED shutdown

(* check_all_servers_status *)

\* The orders in which a dict with the key set S may be iterated (the
\* insertion order is not modelled).
Orders(S) ==
    IF S = {} THEN {<<>>}
    ELSE {q \in SeqsUpTo(S, Cardinality(S)) :
            Len(q) = Cardinality(S) /\ {q[i] : i \in 1..Len(q)} = S}

\* A client calls check_all_servers_status(): lines 439-442, up to the
\* iterator over self.servers (no lock is taken).
CheckAllCall(t, hs) ==
    /\ t \in Clients
    /\ pc[t] = "idle"
    /\ batch[t] = NoBatch
    /\ hs \in Orders(DOMAIN servers)
    /\ pc' = [pc EXCEPT ![t] = "submit_status"]
    /\ batch' = [batch EXCEPT ![t] = [NoBatch EXCEPT !.hostnames = hs, !.i = 1,
                                                      !.fn = "check_server_status"]]
    /\ UNCHANGED <<servers, groups, connections, conn, lock, fr, queue, ret>>
    /\ UNCHANGED shutdown

\* lines 442-444, one step of the iterator: RuntimeError if the dict changed
\* its size since the iteration began; after the last hostname go on to
\* as_completed; else submit a check_server_status task for the hostname.
\* probe (history, read by no action) is the CommandResult the task's call of
\* execute_command ended with.
SubmitStatus(t) ==
    LET b == batch[t] IN
    /\ pc[t] = "submit_status"
    /\ IF Cardinality(DOMAIN servers) # Len(b.hostnames)
       THEN SubmitRaise(t, "check_all_servers_status")
       ELSE IF b.i > Len(b.hostnames)
       THEN /\ pc' = [pc EXCEPT ![t] = "collect_status"]
            /\ UNCHANGED <<batch, queue, ret>>
       ELSE IF shutdown
       THEN SubmitRaise(t, "check_all_servers_status")
       ELSE /\ batch' = [batch EXCEPT
                           ![t].futures = Append(@, [host |-> b.hostnames[b.i],
                                                     state |-> "pending",
                                                     result |-> None,
                                                     probe |-> None]),
                           ![t].i = @ + 1]
            /\ queue' = Append(queue, <<t, Len(b.futures) + 1>>)
            /\ UNCHANGED <<pc, ret>>
    /\ UNCHANGED <<servers, groups, connections, conn, lock, fr>>
    /\ UNCHANGED shutdown

\* CollectedStatus with the entries of the hosts that are not online left out.
CollectedStatusOnlineOnly(results, f) ==
    IF f.state = "done" /\ f.result.online THEN DictSet(results, f.host, f.result)
    ELSE results

\* lines 447-458: future.result() is stored under the future's hostname; an
\* exception of the task is turned into a ServerStatus with its message.
CollectedStatus(results, f) ==
    DictSet(results, f.host,
            IF f.state = "raised" THEN OfflineStatus(f.host, "exception") ELSE f.result)

\* lines 446-458, one iteration of as_completed: take a finished future.
CollectStatus(t, k) ==
    /\ pc[t] = "collect_status"
    /\ k \in 1..Len(batch[t].futures)
    /\ batch[t].futures[k].state \in {"done", "raised"}
    /\ batch' = [batch EXCEPT
                   ![t].results = CollectedStatus(@, batch[t].futures[k]),
                   ![t].order = Append(@, k),
                   ![t].futures[k].state =
                       IF @ = "done" THEN "collected" ELSE "collected_raised"]
    /\ UNCHANGED <<servers, groups, connections, conn, lock, pc, fr, queue, ret>>
    /\ UNCHANGED shutdown

\* line 460: every future was yielded; return the map.
StatusReturn(t) ==
    /\ pc[t] = "collect_status"
    /\ AllCollected(batch[t].futures)
    /\ pc' = [pc EXCEPT ![t] = "returned"]
    /\ ret' = [ret EXCEPT ![t] =
                 [op |-> "check_all_servers_status", arg |-> batch[t].hostnames,
                  raised |-> FALSE,
                  results |-> batch[t].results, futures |-> batch[t].futures,
                  group |-> None, order |-> batch[t].order]]
    /\ batch' = [batch EXCEPT ![t] = NoBatch]
    /\ UNCHANGED <<servers, groups, connections, conn, lock, fr, queue>>
    /\ UNCHANGED shutdown

\* The futures of a call that raised are dropped once their tasks have ended.
Abandon(t) ==
    /\ pc[t] \in {"idle", "returned"}
    /\ batch[t] # NoBatch
    /\ \A k \in 1..Len(batch[t].futures) : batch[t].futures[k].state \in {"done", "raised"}
    /\ batch' = [batch EXCEPT ![t] = NoBatch]
    /\ UNCHANGED <<servers, groups, connections, conn, lock, pc, fr, queue, ret>>
    /\ UNCHANGED shutdown

(* get_statistics *)

\* lines 464-468: under the lock, count the servers, the enabled servers, the
\* pooled connections and the groups. locked (history, read by no action) is
\* the group index as it was under the lock.
StatsLock(t) ==
    /\ t \in Clients
    /\ pc[t] = "idle"
    /\ lock = None
    /\ pc' = [pc EXCEPT ![t] = "stats_groups"]
    /\ fr' = [fr EXCEPT ![t] =
                [NoFrame EXCEPT !.stats =
                    [total_servers |-> Cardinality(DOMAIN servers),
                     enabled_servers |->
                         Cardinality({h \in DOMAIN servers : servers[h].enabled}),
                     active_connections |-> Cardinality(DOMAIN connections),
                     total_groups |-> Cardinality(DOMAIN groups),
                     locked |-> groups]]]
    /\ UNCHANGED <<servers, groups, connections, conn, lock, batch, queue, ret, shutdown>>

\* lines 470-476: after the lock was released, build the map from each group's
\* name to the length of its list out of self.groups as it is now, and return
\* the counts with it.
StatsGroups(t) ==
    /\ pc[t] = "stats_groups"
    /\ pc' = [pc EXCEPT ![t] = "returned"]
    /\ fr' = [fr EXCEPT ![t] = NoFrame]
    /\ ret' = [ret EXCEPT ![t] =
                 [op |-> "get_statistics", raised |-> FALSE,
                  total_servers |-> fr[t].stats.total_servers,
                  enabled_servers |-> fr[t].stats.enabled_servers,
                  active_connections |-> fr[t].stats.active_connections,
                  total_groups |-> fr[t].stats.total_groups,
                  groups |-> [g \in DOMAIN groups |-> Len(groups[g])],
                  locked |-> fr[t].stats.locked]]
    /\ UNCHANGED <<servers, groups, connections, conn, lock, batch, queue, shutdown>>

(* close_all_connections *)

\* lines 480-483: under the lock, disconnect every pooled connection and clear
\* the pool. The frame keeps (history, read by no action) which connections
\* the call disconnected and whether it follows another call of
\* close_all_connections at once.
CloseLocked(t, again) ==
    /\ lock = None
    /\ conn' = [id \in DOMAIN conn |->
                  IF Pooled(id) THEN Disconnected(conn[id], "close_all") ELSE conn[id]]
    /\ connections' = <<>>
    /\ pc' = [pc EXCEPT ![t] = "close_shutdown"]
    /\ fr' = [fr EXCEPT ![t] =
                [NoFrame EXCEPT !.arg = [closed |-> {id \in DOMAIN conn : Pooled(id)},
                                         again |-> again]]]
    /\ UNCHANGED <<servers, groups, lock, batch, queue, shutdown>>

\* A client calls close_all_connections().
CloseLock(t) ==
    /\ t \in Clients
    /\ pc[t] = "idle"
    /\ CloseLocked(t, FALSE)
    /\ UNCHANGED ret

\* A client whose call of close_all_connections() returned calls it again.
CloseLockAgain(t) ==
    /\ t \in Clients
    /\ pc[t] = "returned"
    /\ ret[t].op = "close_all_connections"
    /\ CloseLocked(t, TRUE)
    /\ ret' = [ret EXCEPT ![t] = NoRet]

\* lines 485-486: shut the executor down (no new task is accepted, the queued
\* ones still run), return.
CloseShutdown(t) ==
    /\ pc[t] = "close_shutdown"
    /\ shutdown' = TRUE
    /\ pc' = [pc EXCEPT ![t] = "returned"]
    /\ fr' = [fr EXCEPT ![t] = NoFrame]
    /\ ret' = [ret EXCEPT ![t] =
                 [op |-> "close_all_connections", raised |-> FALSE,
                  closed |-> fr[t].arg.closed, again |-> fr[t].arg.again]]
    /\ UNCHANGED <<servers, groups, connections, conn, lock, batch, queue>>

----------------------------------------------------------------------------
(* The cleanup thread and the environment *)

\* Expired without the idle-time test of line 336.
ExpiredOnlyDead(c) == ~is_alive(c)

\* line 336-337
Expired(c) == IdleExpired(c) \/ ~is_alive(c)

\* _cleanup_connections, one pass (lines 330-343): under the lock, disconnect
\* and drop every pooled connection that is idle too long or not alive.
Reap ==
    LET expired == {h \in DOMAIN connections : Expired(conn[connections[h]])} IN
    /\ lock = None
    /\ conn' = [id \in DOMAIN conn |->
                  IF \E h \in expired : connections[h] = id
                  THEN Disconnected(conn[id], IF IdleExpired(conn[id])
                                              THEN "reaped_idle" ELSE "reaped_dead")
                  ELSE conn[id]]
    /\ connections' = [h \in DOMAIN connections \ expired |-> connections[h]]
    /\ UNCHANGED <<servers, groups, lock, pc, fr, batch, queue, ret>>
    /\ UNCHANGED shutdown

\* Time passes: every pooled connection has been idle one tick longer.
Tick ==
    /\ \E id \in DOMAIN conn : Pooled(id) /\ conn[id].idle <= connection_timeout
    /\ conn' = [id \in DOMAIN conn |->
                  IF Pooled(id) /\ conn[id].idle <= connection_timeout
                  THEN [conn[id] EXCEPT !.idle = @ + 1] ELSE conn[id]]
    /\ UNCHANGED <<servers, groups, connections, lock, pc, fr, batch, queue, ret>>
    /\ UNCHANGED shutdown

\* The network drops the transport of a connection.
Drop(id) ==
    /\ id \in DOMAIN conn
    /\ conn[id].active
    /\ conn' = [conn EXCEPT ![id].active = FALSE]
    /\ UNCHANGED <<servers, groups, connections, lock, pc, fr, batch, queue, ret>>
    /\ UNCHANGED shutdown

----------------------------------------------------------------------------
(* The registry alone: one caller, every ServerInfo *)

NextRegistry ==
    \/ \E s \in ServerInfos : AddLock("c1", s)
    \/ AddGroupsStep("c1")
    \/ \E h \in Hosts : RemLock("c1", h)
    \/ RemGroupsStep("c1")
    \/ RemDel("c1")
    \/ Return("c1")

SpecRegistry == Init /\ [][NextRegistry]_vars

----------------------------------------------------------------------------
(* The pool under one caller: calls run one after the other, the cleanup   *)
(* thread and the network act between their steps.                         *)

\* Records with one authentication method, in one group.
PoolInfos == {s \in ServerInfos : s.group = "g1" /\ s.private_key_path = None /\ s.password = "pw"}

NextPool ==
    \/ \E s \in PoolInfos : AddLock("c1", s)
    \/ AddGroupsStep("c1")
    \/ \E h \in Hosts : RemLock("c1", h)
    \/ RemGroupsStep("c1")
    \/ RemDel("c1")
    \/ Return("c1")
    \/ \E h \in Hosts : ExecCall("c1", h)
    \/ ExecCallAgain("c1")
    \/ GcLock("c1")
    \/ Connect("c1")
    \/ RunStart("c1")
    \/ RunSend("c1")
    \/ RunEnd("c1", RemoteCodes)
    \/ Reap
    \/ Tick
    \/ \E id \in 1..MaxHandshakes : Drop(id)

SpecPool == Init /\ [][NextPool]_vars

\* The cleanup thread keeps running and gets the lock whenever it is free
\* again and again; a thread inside a critical section runs it to its end
\* (connect() is bounded by its 10 s timeout); time passes.
FairSpecPool ==
    /\ SpecPool
    /\ SF_vars(Reap)
    /\ WF_vars(Tick)
    /\ WF_vars(AddGroupsStep("c1"))
    /\ WF_vars(RemGroupsStep("c1"))
    /\ WF_vars(RemDel("c1"))
    /\ WF_vars(Connect("c1"))

----------------------------------------------------------------------------
(* Shutdown: the pool under one caller, who also closes all connections.   *)

NextClose ==
    \/ NextPool
    \/ CloseLock("c1")
    \/ CloseLockAgain("c1")
    \/ CloseShutdown("c1")

SpecClose == Init /\ [][NextClose]_vars

----------------------------------------------------------------------------
(* The fan-out: one client registers hosts and runs parallel batches on the *)
(* executor's workers while another client removes a host under them. A    *)
(* task fails when its handshake fails, when its command raises, or when   *)
(* its host or its connection is taken away by remove_server.              *)

\* The records the batches run against: h1 enabled, h2 enabled or disabled.
FanInfos == {s \in PoolInfos : s.hostname = "h1" => s.enabled}

Next ==
    \/ \E s \in FanInfos : AddLock("c1", s)
    \/ AddGroupsStep("c1")
    \/ \E hs \in HostLists : ParCall("c1", hs)
    \/ Submit("c1")
    \/ \E k \in 1..MaxBatch : Collect("c1", k)
    \/ ParReturn("c1")
    \/ Return("c1")
    \/ RemLock("c2", "h1")
    \/ RemGroupsStep("c2")
    \/ RemDel("c2")
    \/ \E w \in Workers : TaskStart(w)
    \/ \E w \in Workers : GcLock(w)
    \/ \E w \in Workers : Connect(w)
    \/ \E w \in Workers : RunStart(w)
    \/ \E w \in Workers : RunSend(w)
    \/ \E w \in Workers : RunEnd(w, {0})

Spec == Init /\ [][Next]_vars

----------------------------------------------------------------------------
(* The status check: one caller registers and removes hosts and runs       *)
(* check_all_servers_status between these calls; the executor's workers    *)
(* run the probes, whose handshakes may fail and whose transports may drop. *)

NextStatus ==
    \/ \E s \in PoolInfos : AddLock("c1", s)
    \/ AddGroupsStep("c1")
    \/ \E h \in Hosts : RemLock("c1", h)
    \/ RemGroupsStep("c1")
    \/ RemDel("c1")
    \/ Return("c1")
    \/ \E hs \in Orders(DOMAIN servers) : CheckAllCall("c1", hs)
    \/ SubmitStatus("c1")
    \/ \E k \in 1..Cardinality(Hosts) : CollectStatus("c1", k)
    \/ StatusReturn("c1")
    \/ \E w \in Workers : TaskStart(w)
    \/ \E w \in Workers : GcLock(w)
    \/ \E w \in Workers : Connect(w)
    \/ \E w \in Workers : RunStart(w)
    \/ \E w \in Workers : RunSend(w)
    \/ \E w \in Workers : RunEnd(w, RemoteCodes)
    \/ \E id \in 1..MaxHandshakes : Drop(id)

SpecStatus == Init /\ [][NextStatus]_vars

----------------------------------------------------------------------------
(* Commands on groups: one caller registers and removes hosts of either    *)
(* group and runs execute_command_on_group between these calls.            *)

\* Records with a password, in either group.
GroupInfos == {s \in ServerInfos : s.private_key_path = None /\ s.password = "pw"}

NextGroup ==
    \/ \E s \in GroupInfos : AddLock("c1", s)
    \/ AddGroupsStep("c1")
    \/ \E h \in Hosts : RemLock("c1", h)
    \/ RemGroupsStep("c1")
    \/ RemDel("c1")
    \/ Return("c1")
    \/ \E g \in GroupNames : GroupCall("c1", g)
    \/ Submit("c1")
    \/ \E k \in 1..MaxBatch : Collect("c1", k)
    \/ ParReturn("c1")
    \/ \E w \in Workers : TaskStart(w)
    \/ \E w \in Workers : GcLock(w)
    \/ \E w \in Workers : Connect(w)
    \/ \E w \in Workers : RunStart(w)
    \/ \E w \in Workers : RunSend(w)
    \/ \E w \in Workers : RunEnd(w, RemoteCodes)

SpecGroup == Init /\ [][NextGroup]_vars

----------------------------------------------------------------------------
(* The executor under two batches: one client registers hosts and runs      *)
(* execute_command_parallel on one host while another runs                  *)
(* check_all_servers_status; their tasks, more than there are workers,      *)
(* share the executor's workers.                                            *)

\* Enabled records.
BoundInfos == {s \in PoolInfos : s.enabled}

NextBound ==
    \/ \E s \in BoundInfos : AddLock("c1", s)
    \/ AddGroupsStep("c1")
    \/ \E h \in Hosts : ParCall("c1", <<h>>)
    \/ Submit("c1")
    \/ \E k \in 1..MaxBatch : Collect("c1", k)
    \/ ParReturn("c1")
    \/ \E t \in Clients : Return(t)
    \/ \E hs \in Orders(DOMAIN servers) : CheckAllCall("c2", hs)
    \/ SubmitStatus("c2")
    \/ \E k \in 1..Cardinality(Hosts) : CollectStatus("c2", k)
    \/ StatusReturn("c2")
    \/ Abandon("c2")
    \/ \E w \in Workers : TaskStart(w)
    \/ \E w \in Workers : GcLock(w)
    \/ \E w \in Workers : Connect(w)
    \/ \E w \in Workers : RunStart(w)
    \/ \E w \in Workers : RunSend(w)
    \/ \E w \in Workers : RunEnd(w, {0})

SpecBound == Init /\ [][NextBound]_vars

(* Two batches at once: one client registers hosts, both clients run        *)
(* execute_command_parallel over the two hosts, or twice over h1. The tasks *)
(* of the two batches end, and are yielded by as_completed, in any order.   *)

OrderLists == {<<"h1", "h2">>, <<"h1", "h1">>}

NextOrder ==
    \/ \E s \in BoundInfos : AddLock("c1", s)
    \/ AddGroupsStep("c1")
    \/ \E t \in Clients : Return(t)
    \/ \E t \in Clients : \E hs \in OrderLists : ParCall(t, hs)
    \/ \E t \in Clients : Submit(t)
    \/ \E t \in Clients : \E k \in 1..MaxBatch : Collect(t, k)
    \/ \E t \in Clients : ParReturn(t)
    \/ \E w \in Workers : TaskStart(w)
    \/ \E w \in Workers : GcLock(w)
    \/ \E w \in Workers : Connect(w)
    \/ \E w \in Workers : RunStart(w)
    \/ \E w \in Workers : RunSend(w)
    \/ \E w \in Workers : RunEnd(w, RemoteCodes)

SpecOrder == Init /\ [][NextOrder]_vars

----------------------------------------------------------------------------
(* A command against a host that is being removed: one client runs         *)
(* execute_command while the other registers and removes hosts.            *)

NextRace ==
    \/ \E h \in Hosts : ExecCall("c1", h)
    \/ GcLock("c1")
    \/ Connect("c1")
    \/ RunStart("c1")
    \/ RunSend("c1")
    \/ RunEnd("c1", RemoteCodes)
    \/ \E t \in Clients : Return(t)
    \/ \E s \in BoundInfos : AddLock("c2", s)
    \/ AddGroupsStep("c2")
    \/ \E h \in Hosts : RemLock("c2", h)
    \/ RemGroupsStep("c2")
    \/ RemDel("c2")

SpecRace == Init /\ [][NextRace]_vars

----------------------------------------------------------------------------
(* The pool under every operation that touches it: both clients run        *)
(* commands, one also closes all connections, the other also registers and *)
(* removes hosts; the cleanup thread, time and the network act in between. *)

NextMix ==
    \/ \E t \in Clients : \E h \in Hosts : ExecCall(t, h)
    \/ \E t \in Clients : GcLock(t)
    \/ \E t \in Clients : Connect(t)
    \/ \E t \in Clients : RunStart(t)
    \/ \E t \in Clients : RunSend(t)
    \/ \E t \in Clients : RunEnd(t, {0})
    \/ CloseLock("c1")
    \/ CloseShutdown("c1")
    \/ \E t \in Clients : Return(t)
    \/ \E s \in BoundInfos : AddLock("c2", s)
    \/ AddGroupsStep("c2")
    \/ \E h \in Hosts : RemLock("c2", h)
    \/ RemGroupsStep("c2")
    \/ RemDel("c2")
    \/ Reap
    \/ Tick
    \/ \E id \in 1..MaxHandshakes : Drop(id)

SpecMix == Init /\ [][NextMix]_vars

----------------------------------------------------------------------------
(* Every operation at once on an executor of one worker: one client runs    *)
(* batches of two tasks, status checks and statistics, the other registers *)
(* and removes a host and runs single commands on it; the cleanup thread   *)
(* runs in between, and the transport of the first connection may drop.    *)

\* The records of the one host.
LiveInfos == {s \in BoundInfos : s.hostname = "h1"}

\* The worker of ThreadPoolExecutor(max_workers=1).
OneWorker == {"w1"}

\* The threads that run _get_connection here.
Callers == {"c2"} \cup OneWorker

NextLive ==
    \/ ParCall("c1", <<"h1", "h1">>)
    \/ Submit("c1")
    \/ \E k \in 1..MaxBatch : Collect("c1", k)
    \/ ParReturn("c1")
    \/ \E hs \in Orders(DOMAIN servers) : CheckAllCall("c1", hs)
    \/ SubmitStatus("c1")
    \/ \E k \in 1..Cardinality(Hosts) : CollectStatus("c1", k)
    \/ StatusReturn("c1")
    \/ Abandon("c1")
    \/ StatsLock("c1")
    \/ StatsGroups("c1")
    \/ \E t \in Clients : Return(t)
    \/ \E s \in LiveInfos : AddLock("c2", s)
    \/ AddGroupsStep("c2")
    \/ RemLock("c2", "h1")
    \/ RemGroupsStep("c2")
    \/ RemDel("c2")
    \/ ExecCall("c2", "h1")
    \/ \E w \in OneWorker : TaskStart(w)
    \/ \E t \in Callers : GcLock(t)
    \/ \E t \in Callers : Connect(t)
    \/ \E t \in Callers : RunStart(t)
    \/ \E t \in Callers : RunSend(t)
    \/ \E t \in Callers : RunEnd(t, {0})
    \/ Reap
    \/ Drop(1)

SpecLive == Init /\ [][NextLive]_vars

\* Every thread keeps running: a step that needs no lock is taken, a connect
\* and a remote command end, the worker takes the next task, and a thread
\* that waits for the lock gets it, the lock being free again and again.
FairSpecLive ==
    /\ SpecLive
    /\ WF_vars(Submit("c1"))
    /\ WF_vars(\E k \in 1..MaxBatch : Collect("c1", k))
    /\ WF_vars(ParReturn("c1"))
    /\ WF_vars(SubmitStatus("c1"))
    /\ WF_vars(\E k \in 1..Cardinality(Hosts) : CollectStatus("c1", k))
    /\ WF_vars(StatusReturn("c1"))
    /\ WF_vars(StatsGroups("c1"))
    /\ WF_vars(AddGroupsStep("c2"))
    /\ WF_vars(RemGroupsStep("c2"))
    /\ WF_vars(RemDel("c2"))
    /\ \A w \in OneWorker : WF_vars(TaskStart(w))
    /\ \A t \in Callers :
         /\ SF_vars(GcLock(t))
         /\ WF_vars(Connect(t))
         /\ WF_vars(RunStart(t))
         /\ WF_vars(RunSend(t))
         /\ WF_vars(RunEnd(t, {0}))

----------------------------------------------------------------------------
(* Connect failures: two callers run commands on h1, registered with a     *)
(* private key, and on h2, registered with a password; a key may fail to   *)
(* load, a handshake may fail; a caller whose connect attempt failed calls *)
(* again.                                                                   *)

AuthInfos ==
    {s \in ServerInfos :
        /\ s.group = "g1" /\ s.enabled
        /\ s.hostname = "h1" => (s.private_key_path = "key" /\ s.password = None)
        /\ s.hostname = "h2" => (s.private_key_path = None /\ s.password = "pw")}

NextAuth ==
    \/ \E s \in AuthInfos : AddLock("c1", s)
    \/ AddGroupsStep("c1")
    \/ \E t \in Clients : Return(t)
    \/ \E t \in Clients : \E h \in Hosts : ExecCall(t, h)
    \/ \E t \in Clients : ExecCallRetry(t)
    \/ \E t \in Clients : GcLock(t)
    \/ \E t \in Clients : Connect(t)
    \/ \E t \in Clients : RunStart(t)
    \/ \E t \in Clients : RunSend(t)
    \/ \E t \in Clients : RunEnd(t, {0})
    \/ \E id \in 1..MaxHandshakes : Drop(id)

SpecAuth == Init /\ [][NextAuth]_vars

----------------------------------------------------------------------------
(* One host registered again and again under every ServerInfo *)

\* Every record add_server can be given for h1: both groups, enabled or not,
\* with or without a password, with or without a key.
RebindInfos == {s \in ServerInfos : s.hostname = "h1"}

NextRebind ==
    \/ \E s \in RebindInfos : AddLock("c1", s)
    \/ AddGroupsStep("c1")
    \/ Return("c1")
    \/ ExecCall("c1", "h1")
    \/ GcLock("c1")
    \/ Connect("c1")
    \/ RunStart("c1")
    \/ RunSend("c1")
    \/ RunEnd("c1", {0})
    \/ \E id \in 1..MaxHandshakes : Drop(id)

SpecRebind == Init /\ [][NextRebind]_vars

(* The probes under a changing registry: one client registers hosts and runs *)
(* check_all_servers_status while another removes a host under its probes.  *)

NextProbe ==
    \/ \E s \in PoolInfos : AddLock("c1", s)
    \/ AddGroupsStep("c1")
    \/ Return("c1")
    \/ \E hs \in Orders(DOMAIN servers) : CheckAllCall("c1", hs)
    \/ SubmitStatus("c1")
    \/ \E k \in 1..Cardinality(Hosts) : CollectStatus("c1", k)
    \/ StatusReturn("c1")
    \/ Abandon("c1")
    \/ RemLock("c2", "h1")
    \/ RemGroupsStep("c2")
    \/ RemDel("c2")
    \/ \E w \in Workers : TaskStart(w)
    \/ \E w \in Workers : GcLock(w)
    \/ \E w \in Workers : Connect(w)
    \/ \E w \in Workers : RunStart(w)
    \/ \E w \in Workers : RunSend(w)
    \/ \E w \in Workers : RunEnd(w, RemoteCodes)
    \/ \E id \in 1..MaxHandshakes : Drop(id)

SpecProbe == Init /\ [][NextProbe]_vars

\* The workers keep running: a free worker takes the next task, a handshake
\* and a command end, a thread that waits for the lock gets it, and a thread
\* that holds the lock releases it.
FairSpecBound ==
    /\ SpecBound
    /\ WF_vars(AddGroupsStep("c1"))
    /\ \A w \in Workers :
         /\ WF_vars(TaskStart(w))
         /\ SF_vars(GcLock(w))
         /\ WF_vars(Connect(w))
         /\ WF_vars(RunStart(w))
         /\ WF_vars(RunSend(w))
         /\ WF_vars(RunEnd(w, {0}))

----------------------------------------------------------------------------
(* Statistics: one client reads the statistics while another registers and *)
(* removes hosts.                                                          *)

\* The records the statistics are taken over: h1 enabled, h2 enabled or
\* disabled, in either group.
StatsInfos == {s \in GroupInfos : s.hostname = "h1" => s.enabled}

NextStats ==
    \/ StatsLock("c1")
    \/ StatsGroups("c1")
    \/ \E t \in Clients : Return(t)
    \/ \E s \in StatsInfos : AddLock("c2", s)
    \/ AddGroupsStep("c2")
    \/ \E h \in Hosts : RemLock("c2", h)
    \/ RemGroupsStep("c2")
    \/ RemDel("c2")

SpecStats == Init /\ [][NextStats]_vars

----------------------------------------------------------------------------
(* Properties *)

Range(l) == {l[i] : i \in 1..Len(l)}

Count(x, l) == Cardinality({i \in 1..Len(l) : l[i] = x})

ReturnedFrom(t, op) == pc[t] = "returned" /\ ret[t].op = op

\* A result of a command that ran and reported the exit status of the shell.
Succeeded(r) == r.error = None /\ r.return_code # -1

\* A result that carries an error.
Failed(r) == r.error # None /\ r.return_code = -1

\* What a finished task hands to the collecting loop.
Outcome(f) == IF f.state = "collected_raised" THEN ExceptionResult(f.host) ELSE f.result

(* C1: execute_command_parallel(hostnames, command) returns a map whose key
   set is the set of the requested hostnames, whatever the state of each
   host. *)
C1_OneResultPerRequestedHost ==
    \A t \in Clients :
        ReturnedFrom(t, "execute_command_parallel")
            => DOMAIN ret[t].results = Range(ret[t].arg)

(* C2: in the map execute_command_parallel returns, every task that was
   submitted has run to its end and left a result under its hostname, which
   is the outcome of one of that host's tasks: a host whose tasks all
   succeeded has a successful result (no error, the remote exit status)
   whatever happened to the other hosts, and a host whose tasks all failed
   (no connection, an exception caught in the connection, an exception raised
   out of the task) has a result with return_code -1 and an error. *)
C2_FaultIsolation ==
    \A t \in Clients :
        ReturnedFrom(t, "execute_command_parallel") =>
            LET fs == ret[t].futures
                rs == ret[t].results
                of(h) == {Outcome(fs[k]) : k \in {j \in 1..Len(fs) : fs[j].host = h}}
            IN  /\ AllCollected(fs)
                /\ \A k \in 1..Len(fs) :
                     /\ fs[k].host \in DOMAIN rs
                     /\ rs[fs[k].host] \in of(fs[k].host)
                     /\ (\A r \in of(fs[k].host) : Succeeded(r)) => Succeeded(rs[fs[k].host])
                     /\ (\A r \in of(fs[k].host) : Failed(r)) => Failed(rs[fs[k].host])

\* A batch over two hosts returned: one host's task failed, the other host's
\* task succeeded, and both results are in the map.
C2_Witness ==
    \E t \in Clients :
        /\ ReturnedFrom(t, "execute_command_parallel")
        /\ Len(ret[t].futures) = 2
        /\ ret[t].futures[1].host # ret[t].futures[2].host
        /\ \E k \in 1..2 :
             /\ Failed(Outcome(ret[t].futures[k]))
             /\ Succeeded(Outcome(ret[t].futures[3 - k]))
             /\ Failed(ret[t].results[ret[t].futures[k].host])
             /\ Succeeded(ret[t].results[ret[t].futures[3 - k].host])

(* C3: execute_command on a hostname that is not registered, or registered
   with enabled = false, returns return_code -1 with an error and does not
   raise, whatever is pooled for the hostname. (Under SpecPool the calls of
   the one caller run one after the other: the registry at the return is the
   registry the call saw.) *)
C3_UnknownOrDisabledRefused ==
    \A t \in Clients :
        (/\ ReturnedFrom(t, "execute_command")
         /\ (ret[t].arg \notin DOMAIN servers \/ ~servers[ret[t].arg].enabled))
            => /\ ~ret[t].raised
               /\ ret[t].result.return_code = -1
               /\ ret[t].result.error # None

(* C4: while a command is in flight on a connection, the connection stays
   connected and stays the pooled connection of its host. *)
C4_InFlightPinned ==
    \A t \in Threads :
        pc[t] \in {"send", "inflight"}
            => /\ conn[fr[t].conn].connected
               /\ fr[t].host \in DOMAIN connections
               /\ connections[fr[t].host] = fr[t].conn

(* C5: between the calls of add_server and remove_server, every hostname in
   the group index is listed exactly once, in the group that the record
   registered under the hostname names. *)
C5_GroupIndexInvariant ==
    (\A t \in Clients : pc[t] \in {"idle", "returned"}) =>
        \A g \in DOMAIN groups : \A h \in Range(groups[g]) :
            /\ h \in DOMAIN servers
            /\ servers[h].group = g
            /\ Count(h, groups[g]) = 1
            /\ \A g2 \in DOMAIN groups \ {g} : ~InList(h, groups[g2])

(* C6: a ServerInfo with zero or two authentication methods is rejected by
   add_server: no such record is ever returned by get_server or list_servers,
   nor listed in the group index. *)
C6_InvalidAuthRejected ==
    /\ (\A t \in Clients : pc[t] \in {"idle", "returned"}) =>
         /\ \A h \in Hosts : h \in DOMAIN servers => NumAuth(get_server(h)) = 1
         /\ \A s \in list_all_servers : NumAuth(s) = 1
         /\ \A g \in GroupNames : \A s \in list_servers(g) : NumAuth(s) = 1
    /\ \A t \in Clients :
         (ReturnedFrom(t, "add_server") /\ NumAuth(ret[t].arg) # 1)
            => get_server(ret[t].arg.hostname) # ret[t].arg

(* C7: after add_server(s) of a record s with exactly one authentication
   method, from any registry state, get_server(s.hostname) is s, and adding s
   again changes neither the host map nor the group index: the hostname is
   listed once in the group of s. *)
C7_AddRoundTripIdempotent ==
    \A t \in Clients :
        (ReturnedFrom(t, "add_server") /\ NumAuth(ret[t].arg) = 1) =>
            LET s == ret[t].arg
            IN  /\ get_server(s.hostname) = s
                /\ s \in list_servers(s.group)
                /\ AddServers(servers, s) = servers
                /\ AddGroups(groups, s) = groups
                /\ Count(s.hostname, get_group_servers(s.group)) = 1

\* add_server(s) returned for a hostname that was registered before and whose
\* group already listed another host.
C7_Witness ==
    \E t \in Clients :
        /\ ReturnedFrom(t, "add_server")
        /\ NumAuth(ret[t].arg) = 1
        /\ Len(get_group_servers(ret[t].arg.group)) = 2
        /\ get_group_servers(ret[t].arg.group)[1] = ret[t].arg.hostname
        /\ get_server(ret[t].arg.hostname) = ret[t].arg

(* C8: when remove_server(h) of a registered hostname h returns, get_server(h)
   finds nothing, no group's listing (list_servers(group),
   get_group_servers(group)) holds h, and no group of list_groups() is
   empty. *)
C8_RemovedEverywhere ==
    [][\A t \in Clients : \A h \in Hosts :
         (pc[t] = "rem_del" /\ fr[t].host = h /\ pc'[t] = "idle") =>
            /\ (h \notin DOMAIN servers)'
            /\ \A g \in GroupNames :
                 /\ (~InList(h, get_group_servers(g)))'
                 /\ (\A s \in list_servers(g) : s.hostname # h)'
            /\ (\A g \in list_groups : get_group_servers(g) # <<>>)']_vars

\* The frame of the call of execute_command a client is in or has returned from.
CallOf(t) ==
    IF pc[t] \in {"run", "send", "inflight"} THEN fr[t]
    ELSE IF ReturnedFrom(t, "execute_command") /\ ~ret[t].raised THEN ret[t]
    ELSE NoFrame

(* C9: a call of execute_command to the host of the caller's previous call,
   made while the connection of that call is still pooled and alive, runs on
   that same connection and performs no connect handshake. *)
C9_ConnectionReuse ==
    \A t \in Clients :
        CallOf(t).prevAlive
            => /\ CallOf(t).conn = CallOf(t).prev
               /\ ~CallOf(t).fresh

\* Two calls in a row to a registered, enabled host: the first connected, the
\* second ran on the first's connection and succeeded; one handshake was made.
C9_Witness ==
    \E t \in Clients :
        /\ ReturnedFrom(t, "execute_command")
        /\ ret[t].prevAlive
        /\ ret[t].conn = ret[t].prev
        /\ Succeeded(ret[t].result)
        /\ ret[t].arg \in DOMAIN servers /\ servers[ret[t].arg].enabled
        /\ Len(conn) = 1

IdlePooled(id) == id \in DOMAIN conn /\ Pooled(id) /\ IdleExpired(conn[id])

Evicted(id) == id \in DOMAIN conn /\ ~Pooled(id) /\ ~conn[id].connected

(* C10, as stated: a pooled connection that is idle longer than
   connection_timeout is eventually disconnected and out of the pool. *)
C10_IdleEventuallyEvicted ==
    \A id \in 1..MaxHandshakes :
        IdlePooled(id) ~> Evicted(id)

(* C10, amended: a pooled connection that is idle longer than
   connection_timeout is eventually disconnected and out of the pool, unless a
   command completes on it first (execute_command hands out a pooled
   connection whatever its idle time, and the command's end resets
   last_used); a pass of the cleanup thread leaves no such connection in the
   pool; and a call for a registered, enabled host that has no pooled
   connection goes through connect(). *)
C10_IdleEvictedUnlessUsed ==
    /\ \A id \in 1..MaxHandshakes :
         IdlePooled(id) ~> (Evicted(id) \/ ~IdlePooled(id))
    /\ [][Reap => \A id \in DOMAIN conn :
                    IdlePooled(id) => Evicted(id)']_vars
    /\ [][\A t \in Clients :
            (/\ pc[t] = "gc_lock" /\ pc'[t] # "gc_lock"
             /\ fr[t].host \notin DOMAIN connections
             /\ fr[t].host \in DOMAIN servers /\ servers[fr[t].host].enabled)
                => (pc'[t] = "connecting" /\ fr'[t].fresh)]_vars

\* A connection was evicted by the cleanup thread, and a later call to its
\* host made a new handshake.
C10_Witness ==
    \E t \in Clients :
        /\ ReturnedFrom(t, "execute_command")
        /\ ret[t].prev # 0 /\ ~ret[t].prevAlive
        /\ conn[ret[t].prev].closed = "reaped_idle"
        /\ ret[t].fresh
        /\ ret[t].conn # 0 /\ ret[t].conn # ret[t].prev

\* The probe of a status task found its host unreachable: execute_command
\* raised, or ended without having run the command (no connection, not
\* connected, an exception).
Unreachable(probe) == probe.state = "raised" \/ Failed(probe.result)

Populated(e) == e # None /\ e # ""

(* C11: check_all_servers_status() returns a map with exactly one entry for
   each registered hostname (N entries over a registry of N hosts), and the
   entry of every host whose probe found it unreachable has online = false
   and a non-empty error. *)
C11_OneStatusPerHost ==
    \A t \in Clients :
        ReturnedFrom(t, "check_all_servers_status") =>
            LET fs == ret[t].futures
                rs == ret[t].results
            IN  /\ ~ret[t].raised
                /\ DOMAIN rs = DOMAIN servers
                /\ Cardinality(DOMAIN rs) = Len(ret[t].arg)
                /\ \A h \in DOMAIN rs : rs[h].hostname = h
                /\ \A k \in 1..Len(fs) :
                     Unreachable(fs[k].probe)
                        => /\ ~rs[fs[k].host].online
                           /\ Populated(rs[fs[k].host].error)

\* A check over two registered hosts returned: one host is online, the other's
\* handshake failed and its entry is offline with the error.
C11_Witness ==
    \E t \in Clients :
        /\ ReturnedFrom(t, "check_all_servers_status")
        /\ DOMAIN ret[t].results = Hosts
        /\ \A h \in Hosts : servers[h].enabled
        /\ \E k \in 1..2 :
             /\ ret[t].futures[k].probe.result = NoConnectionResult(ret[t].futures[k].host)
             /\ ~ret[t].results[ret[t].futures[k].host].online
             /\ ret[t].results[ret[t].futures[3 - k].host].online

(* C12: the map execute_command_on_group(group, command) returns has exactly
   one entry for each hostname the group lists, which is either the result of
   the command run there (no error, the remote exit status) or a result with
   return_code -1 and an error. *)
C12_OneResultPerMember ==
    \A t \in Clients :
        (ReturnedFrom(t, "execute_command_parallel") /\ ret[t].group # None) =>
            /\ ~ret[t].raised
            /\ DOMAIN ret[t].results = Range(get_group_servers(ret[t].group))
            /\ \A h \in DOMAIN ret[t].results :
                 /\ ret[t].results[h].hostname = h
                 /\ Succeeded(ret[t].results[h]) \/ Failed(ret[t].results[h])

(* C13: SSHConnection.execute_command on a connection that is not alive when
   the call ends (never connected, disconnected by another thread, or its
   transport dropped, before or while the command runs) does not raise and
   returns a CommandResult with return_code -1 and an error. *)
C13_ClosedConnectionYieldsError ==
    [][\A t \in Clients :
         (/\ pc[t] \in {"run", "send", "inflight"}
          /\ pc'[t] = "returned"
          /\ ~is_alive(conn[fr[t].conn]))
            => /\ ~ret'[t].raised
               /\ ret'[t].result.return_code = -1
               /\ ret'[t].result.error # None]_vars

(* C14: in every CommandResult execute_command returns, an exit status of the
   remote command, zero or not, comes with error unset, and error is set if
   and only if no exit status was received because the connection or the
   transport failed, in which case return_code is -1. *)
C14_ErrorIffTransportFailure ==
    \A t \in Clients :
        (ReturnedFrom(t, "execute_command") /\ ~ret[t].raised) =>
            /\ ret[t].result.return_code \in RemoteCodes \cup {-1}
            /\ ret[t].result.return_code \in RemoteCodes => ret[t].result.error = None
            /\ ret[t].result.error # None <=> ret[t].result.return_code = -1

(* C15: disconnect() on a connection that is closed already changes nothing
   and leaves it closed; when close_all_connections returns, without an
   error, the pool is empty and every connection is closed, and a call that
   follows another call of close_all_connections, or the eviction of the
   connections by the cleanup thread, finds nothing to close and does the
   same. *)
C15_CloseIdempotent ==
    /\ \A id \in DOMAIN conn : \A why \in {"closed", "replaced", "close_all", "reaped_idle", "reaped_dead"} :
         /\ Disconnected(Disconnected(conn[id], why), why) = Disconnected(conn[id], why)
         /\ ~Disconnected(conn[id], why).connected
         /\ conn[id].closed # None
              => /\ ~conn[id].connected /\ ~conn[id].client
                 /\ Disconnected(conn[id], conn[id].closed) = conn[id]
    /\ \A t \in Clients :
         ReturnedFrom(t, "close_all_connections") =>
            /\ ~ret[t].raised
            /\ connections = <<>>
            /\ \A id \in DOMAIN conn : ~conn[id].connected /\ ~conn[id].client
            /\ ret[t].again => ret[t].closed = {}

\* close_all_connections returned for the second time in a row; the first call
\* had closed a pooled connection, the second found the pool empty.
C15_Witness ==
    \E t \in Clients :
        /\ ReturnedFrom(t, "close_all_connections")
        /\ ret[t].again
        /\ ret[t].closed = {}
        /\ \E id \in DOMAIN conn : conn[id].closed = "close_all"

(* C16: no thread holds the lock while it is in the connect handshake: while
   one thread is connecting to a host, the lock is free for a thread whose
   _get_connection for another host waits for it. *)
C16_LockFreeWhileConnecting ==
    \A t \in Threads :
        pc[t] = "connecting" =>
            /\ lock # t
            /\ \A u \in Threads \ {t} :
                 (pc[u] = "gc_lock" /\ fr[u].host # fr[t].host) => lock = None

\* The task of future i of client c's batch waits in the executor's queue.
Queued(c, i) == \E k \in 1..Len(queue) : queue[k] = <<c, i>>

\* The futures a batch may hold.
TaskIds ==
    Clients \X (1..(IF MaxBatch > Cardinality(Hosts) THEN MaxBatch ELSE Cardinality(Hosts)))

\* The tasks that were taken from the queue and have not ended.
RunningTasks ==
    {x \in TaskIds :
        /\ x[2] <= Len(batch[x[1]].futures)
        /\ batch[x[1]].futures[x[2]].state = "pending"
        /\ ~Queued(x[1], x[2])}

(* C17: at every moment at most max_connections tasks of the batches of
   execute_command_parallel and check_all_servers_status are running, each on
   a worker of its own, and every task that waits in the queue is eventually
   taken by a worker. *)
C17_BoundedFanOut ==
    /\ [](/\ Cardinality(RunningTasks) <= max_connections
          /\ \A x \in RunningTasks : \E w \in Workers : pc[w] # "idle" /\ fr[w].task = x)
    /\ \A x \in TaskIds : Queued(x[1], x[2]) ~> ~Queued(x[1], x[2])

\* Every worker runs a task, of both clients' batches, and a further task
\* waits in the queue.
C17_Witness ==
    /\ Cardinality(RunningTasks) = max_connections
    /\ \E x, y \in RunningTasks : x[1] # y[1]
    /\ queue # <<>>

(* C18: at no time are two commands in flight on the same connection: two
   threads that are inside SSHConnection.execute_command at once are on
   different connections. *)
C18_OneCommandPerConnection ==
    \A t \in Threads : \A u \in Threads \ {t} :
        (pc[t] \in {"send", "inflight"} /\ pc[u] \in {"send", "inflight"})
            => fr[t].conn # fr[u].conn

(* C19: in every state a reader (get_server, list_servers, list_groups,
   get_group_servers take no lock, so they read the registry as it is between
   any two statements of add_server and remove_server) can see, every
   registered host is listed in the group its record names, and every hostname
   a group lists is registered. *)
C19_RegistryNeverDiverges ==
    /\ \A h \in Hosts :
         h \in DOMAIN servers => InList(h, get_group_servers(get_server(h).group))
    /\ \A g \in list_groups : \A h \in Range(get_group_servers(g)) :
         h \in DOMAIN servers

(* C20: what get_statistics returns describes one state of the registry, the
   one its counts were taken in under the lock: the groups map gives the
   sizes of the groups of that state, and total_groups is the number of its
   entries. *)
C20_StatisticsSnapshot ==
    \A t \in Clients :
        ReturnedFrom(t, "get_statistics") =>
            /\ ~ret[t].raised
            /\ ret[t].enabled_servers <= ret[t].total_servers
            /\ ret[t].groups = [g \in DOMAIN ret[t].locked |-> Len(ret[t].locked[g])]
            /\ ret[t].total_groups = Cardinality(DOMAIN ret[t].groups)

\* The cleanup thread evicts a connection in this step.
ReaperEvicts ==
    \E id \in DOMAIN conn :
        /\ conn[id].closed = None
        /\ conn'[id].closed \in {"reaped_idle", "reaped_dead"}

(* C21: once close_all_connections has returned (the executor is shut down),
   the cleanup thread has ended: it evicts no connection from the pool any
   more. *)
C21_ShutdownStopsReaper ==
    [][shutdown => ~ReaperEvicts]_vars

\* The futures of the check_server_status tasks that have ended.
EndedProbes ==
    {f \in UNION {Range(batch[t].futures) : t \in Clients} :
        "probe" \in DOMAIN f /\ f.state # "pending"}

(* C22: a call of check_server_status(h) never raises, whatever its probe did
   (also when the probe's execute_command raised), and returns a ServerStatus
   of h with online = true exactly when the probe's CommandResult has
   return_code 0 (error unset then); otherwise online = false and error is
   the probe result's error or, when that is unset, its stderr. *)
C22_StatusFromProbe ==
    \A f \in EndedProbes :
        /\ f.state \in {"done", "collected"}
        /\ f.result.hostname = f.host
        /\ f.result.online <=> (f.probe.state = "done" /\ f.probe.result.return_code = 0)
        /\ f.result.online => f.result.error = None
        /\ (~f.result.online /\ f.probe.state = "done") =>
              f.result.error = IF f.probe.result.error # None
                               THEN f.probe.result.error ELSE f.probe.stderr

\* Two probes have ended: one whose command exited with a non-zero status and
\* wrote to stderr, one whose execute_command raised.
C22_Witness ==
    /\ \E f \in EndedProbes :
         /\ f.probe.state = "done" /\ f.probe.result.return_code = 1
         /\ f.result = OfflineStatus(f.host, "stderr")
    /\ \E f \in EndedProbes : f.probe.state = "raised" /\ ~f.result.online

\* Thread t leaves the critical section of _get_connection(h) in this step,
\* having found a pooled connection of h that is not alive.
FindsDeadPooled(t, h) ==
    /\ pc[t] = "gc_lock" /\ pc'[t] # "gc_lock"
    /\ fr[t].host = h
    /\ h \in DOMAIN connections
    /\ ~is_alive(conn[connections[h]])

\* The connection that was pooled for h is disconnected and out of the pool
\* after this step.
EvictsPooled(h) ==
    \A id \in DOMAIN conn :
        connections[h] = id => /\ ~conn'[id].connected /\ ~conn'[id].client
                               /\ \A g \in DOMAIN connections' : connections'[g] # id

\* Thread t's connect attempt fails in this step.
ConnectFails(t) ==
    /\ pc[t] = "connecting" /\ pc'[t] # "connecting"
    /\ pc'[t] # "run"

(* C23, as stated: a call of _get_connection(h) that finds a pooled connection
   of h that is not alive disconnects it, removes it and goes on to a fresh
   connect attempt; and after a failed connect attempt the pool has no entry
   for h. *)
C23_DeadPooledReplaced ==
    [][\A t \in Clients : \A h \in Hosts :
         /\ FindsDeadPooled(t, h) =>
               (EvictsPooled(h) /\ pc'[t] = "connecting" /\ fr'[t].fresh)
         /\ (ConnectFails(t) /\ fr[t].host = h) => h \notin DOMAIN connections']_vars

(* C23, amended: a call of _get_connection(h) that finds a pooled connection
   of h that is not alive disconnects it and removes it, and, if h is
   registered as enabled, goes on to a fresh connect attempt (if h is
   registered as disabled by then, it returns no connection and makes no
   attempt); after a failed connect attempt the pool has no entry for h and
   the call returns return_code -1 with an error; and a call for an enabled
   host that finds no entry goes on to a connect attempt. *)
C23_DeadPooledReplacedIfEnabled ==
    [][\A t \in Clients : \A h \in Hosts :
         /\ FindsDeadPooled(t, h) =>
               /\ EvictsPooled(h)
               /\ h \in DOMAIN servers
               /\ IF servers[h].enabled
                  THEN pc'[t] = "connecting" /\ fr'[t].fresh
                  ELSE /\ pc'[t] = "returned"
                       /\ ret'[t].result = NoConnectionResult(h)
                       /\ h \notin DOMAIN connections'
         /\ (ConnectFails(t) /\ fr[t].host = h) =>
               /\ h \notin DOMAIN connections'
               /\ pc'[t] = "returned"
               /\ ret'[t].result = NoConnectionResult(h)
         /\ (/\ pc[t] = "gc_lock" /\ pc'[t] # "gc_lock" /\ fr[t].host = h
             /\ h \notin DOMAIN connections
             /\ h \in DOMAIN servers /\ servers[h].enabled)
               => (pc'[t] = "connecting" /\ fr'[t].fresh)]_vars

\* A call found the connection of the caller's previous call pooled and dead,
\* replaced it, and ran on the connection of a new handshake, which is now
\* the pooled connection of the host.
C23_Witness ==
    \E t \in Clients :
        /\ ReturnedFrom(t, "execute_command")
        /\ ret[t].prev # 0 /\ ret[t].conn # 0 /\ ret[t].conn # ret[t].prev
        /\ conn[ret[t].prev].closed = "replaced"
        /\ ret[t].fresh
        /\ ret[t].arg \in DOMAIN connections
        /\ connections[ret[t].arg] = ret[t].conn

(* C24: a connect failure caused by the key (AuthError) is told apart from a
   failed handshake (NetworkError): the errors of the CommandResults the two
   end in differ; the call after an AuthError makes no new connect attempt
   for the host (its record is unchanged), the call after a NetworkError
   makes one; and neither raises. *)
C24_AuthDistinguishedFromNetwork ==
    /\ [](\A t \in Clients :
            (ReturnedFrom(t, "execute_command") /\ ret[t].cause # None) =>
                /\ ~ret[t].raised
                /\ Failed(ret[t].result)
                /\ \A u \in Clients \ {t} :
                     (ReturnedFrom(u, "execute_command") /\ ret[u].cause \notin {None, ret[t].cause})
                        => ret[u].result.error # ret[t].result.error)
    /\ [][\A t \in Clients :
            (pc[t] = "gc_lock" /\ pc'[t] # "gc_lock" /\ fr[t].host \notin DOMAIN connections) =>
                /\ fr[t].prevCause = "auth" => pc'[t] # "connecting"
                /\ fr[t].prevCause = "network" => pc'[t] = "connecting"]_vars

\* The hosts a batch had tasks for, each with the outcomes of its tasks.
PerHostOutcomes(fs) ==
    [h \in {fs[k].host : k \in 1..Len(fs)} |->
        {Outcome(fs[k]) : k \in {j \in 1..Len(fs) : fs[j].host = h}}]

\* Every host of the batch has one outcome.
OutcomesGiven(fs) ==
    \A h \in DOMAIN PerHostOutcomes(fs) : Cardinality(PerHostOutcomes(fs)[h]) = 1

(* C25: the map execute_command_parallel returns is determined by the
   hostname list and the outcome of each host, not by the order in which the
   tasks end and are yielded: it maps every host that had a task to that
   host's outcome, and two calls over the same hostname list with the same
   per-host outcomes return equal maps, whatever the order their futures
   were yielded in. *)
C25_CompletionOrderIrrelevant ==
    \A t \in Clients :
        (ReturnedFrom(t, "execute_command_parallel") /\ OutcomesGiven(ret[t].futures)) =>
            /\ DOMAIN ret[t].results = DOMAIN PerHostOutcomes(ret[t].futures)
            /\ \A h \in DOMAIN ret[t].results :
                 PerHostOutcomes(ret[t].futures)[h] = {ret[t].results[h]}
            /\ \A u \in Clients :
                 (/\ ReturnedFrom(u, "execute_command_parallel")
                  /\ ret[u].arg = ret[t].arg
                  /\ PerHostOutcomes(ret[u].futures) = PerHostOutcomes(ret[t].futures))
                    => ret[u].results = ret[t].results

\* Two calls over the same two hosts returned; in each, one host failed and
\* the other succeeded with a non-zero exit status; the futures of the two
\* calls were yielded in opposite orders, and the maps are equal.
C25_Witness ==
    /\ \A t \in Clients :
         /\ ReturnedFrom(t, "execute_command_parallel")
         /\ Len(ret[t].futures) = 2
         /\ ret[t].futures[1].host # ret[t].futures[2].host
    /\ ret["c1"].order = <<1, 2>>
    /\ ret["c2"].order = <<2, 1>>
    /\ PerHostOutcomes(ret["c1"].futures) = PerHostOutcomes(ret["c2"].futures)
    /\ ret["c1"].results = ret["c2"].results
    /\ \E h \in Hosts :
         /\ Failed(ret["c1"].results[h])
         /\ \E g \in Hosts \ {h} : ret["c1"].results[g] = RanResult(g, 1)

(* C26: execute_command(h, command) that runs while another thread runs
   remove_server(h) never raises: it returns a CommandResult, with
   return_code -1 and an error when it got no connection. *)
C26_NoRaiseUnderRemove ==
    \A t \in Clients :
        ReturnedFrom(t, "execute_command") =>
            /\ ~ret[t].raised
            /\ ret[t].conn = 0 => Failed(ret[t].result)

(* C27: in every state, every hostname with an entry in the pool is
   registered, its entry is a connection to that hostname, no connection is
   pooled under two hostnames, and a connection that is still connected is
   the pooled one of its host (no host has two of them); and as long as
   remove_server(h) has not deleted the record yet, having taken the lock for
   a registered h, the pool has no entry for h and the connection that was
   pooled for h is disconnected. *)
C27_PoolWithinRegistry ==
    /\ DOMAIN connections \subseteq DOMAIN servers
    /\ \A h \in DOMAIN connections :
         /\ connections[h] \in DOMAIN conn
         /\ conn[connections[h]].host = h
         /\ \A g \in DOMAIN connections : connections[g] = connections[h] => g = h
    /\ \A id \in DOMAIN conn :
         conn[id].connected => (conn[id].host \in DOMAIN connections
                                /\ connections[conn[id].host] = id)
    /\ \A t \in Clients :
         pc[t] \in {"rem_groups", "rem_del"} =>
            /\ fr[t].host \notin DOMAIN connections
            /\ \A id \in DOMAIN conn : conn[id].host = fr[t].host => ~conn[id].connected

\* remove_server(h) has disconnected the pooled connection of h and dropped it
\* from the pool while a command was in flight on it; the other host's
\* connection stays pooled.
C27_Witness ==
    \E t, u \in Clients : \E id \in DOMAIN conn :
        /\ pc[t] = "rem_del"
        /\ conn[id].host = fr[t].host /\ conn[id].closed = "closed"
        /\ pc[u] = "inflight" /\ fr[u].conn = id
        /\ \E g \in DOMAIN connections : g # fr[t].host

(* C28: one pass of the cleanup thread removes from the pool exactly the
   connections that are idle longer than connection_timeout or not alive and
   disconnects each of them; every other pooled connection stays pooled and
   is left as it was; nothing is added to the pool; the connections outside
   the pool, the host map and the group index are unchanged. *)
C28_ReaperFrame ==
    [][Reap =>
         /\ servers' = servers /\ groups' = groups
         /\ DOMAIN connections' \subseteq DOMAIN connections
         /\ DOMAIN conn' = DOMAIN conn
         /\ \A id \in DOMAIN conn : ~Pooled(id) => conn'[id] = conn[id]
         /\ \A h \in DOMAIN connections : \A id \in DOMAIN conn :
              connections[h] = id =>
                 IF \/ conn[id].idle > connection_timeout
                    \/ ~conn[id].connected \/ ~conn[id].client \/ ~conn[id].active
                 THEN /\ h \notin DOMAIN connections'
                      /\ ~conn'[id].connected /\ ~conn'[id].client
                 ELSE /\ h \in DOMAIN connections'
                      /\ connections'[h] = id
                      /\ conn'[id] = conn[id]]_vars

\* The cleanup thread has evicted a connection, for idleness or for its
\* transport, while an older connection, alive and used within the timeout,
\* was pooled, and that one is still pooled, connected and alive.
C28_Witness ==
    \E id1, id2 \in DOMAIN conn :
        /\ id2 < id1
        /\ conn[id1].closed \in {"reaped_idle", "reaped_dead"}
        /\ Pooled(id2) /\ is_alive(conn[id2])
        /\ conn[id2].idle = connection_timeout

\* Thread t is inside a call.
InCall(t) == pc[t] \notin {"idle", "returned"}

\* The positions in which a thread holds the lock.
LockHeldAt == {"add_groups", "rem_groups", "rem_del", "connecting"}

\* The task of future i of client c's batch has not ended.
Unfinished(c, i) ==
    /\ i <= Len(batch[c].futures)
    /\ batch[c].futures[i].state = "pending"

(* C29: the lock is held only by a thread inside one of the critical
   sections, none of which takes the lock again; a worker never submits to
   the executor nor waits for a future; and, every connect and every command
   ending, on an executor of one worker every call that has begun returns,
   every submitted task ends, and the lock is free again and again (for the
   next call, or the next pass of the cleanup thread, that waits for it). *)
C29_EveryCallReturns ==
    /\ [](/\ \A t \in Threads : lock = t <=> pc[t] \in LockHeldAt
          /\ \A w \in Workers :
               pc[w] \in {"idle", "gc_lock", "connecting", "run", "send", "inflight"})
    /\ \A t \in Clients : InCall(t) ~> ~InCall(t)
    /\ \A x \in TaskIds : Unfinished(x[1], x[2]) ~> ~Unfinished(x[1], x[2])
    /\ []<>(lock = None)

\* The one worker is in the handshake of the first task of a batch, holding
\* the lock; the second task waits in the queue, the batch's caller waits
\* for both, and the other client's command waits for the lock.
C29_Witness ==
    /\ pc["w1"] = "connecting" /\ lock = "w1"
    /\ queue # <<>>
    /\ pc["c1"] = "collect"
    /\ pc["c2"] = "gc_lock"

\* The step is a step of add_server by t: it takes the lock and stores the
\* record, or it updates the group index and returns.
AddServerStep(t) ==
    \/ pc[t] = "idle" /\ pc'[t] = "add_groups"
    \/ pc[t] = "add_groups" /\ pc'[t] = "returned"

\* The step is _get_connection by t finding a pooled connection that is alive.
FindsAlivePooled(t) ==
    /\ pc[t] = "gc_lock" /\ pc'[t] # "gc_lock"
    /\ fr[t].host \in DOMAIN connections
    /\ is_alive(conn[connections[fr[t].host]])

\* C30: add_server never touches the connection pool. No step of add_server
\* changes self.connections or any connection, so a hostname registered again
\* keeps its pooled connection, as connected as it was; no step at all changes
\* the ServerInfo a connection was created with; and _get_connection hands out
\* a pooled connection that is alive whatever record the hostname has now.
C30_AddServerLeavesPool ==
    [][/\ \A t \in Clients :
            AddServerStep(t) => connections' = connections /\ conn' = conn
       /\ \A id \in DOMAIN conn :
            id \in DOMAIN conn' /\ conn'[id].server_info = conn[id].server_info
       /\ \A t \in Threads :
            FindsAlivePooled(t) =>
                /\ connections' = connections
                /\ fr'[t].conn = connections[fr[t].host]
                /\ pc'[t] = "run"]_vars

\* h1 was registered again, enabled before and disabled now and with other
\* credentials, and a command has since run on the connection made for the
\* first record, which is still pooled and alive.
C30_Witness ==
    /\ pc["c1"] = "returned"
    /\ ret["c1"].op = "execute_command"
    /\ ~ret["c1"].raised
    /\ ~ret["c1"].fresh
    /\ ret["c1"].result.return_code = 0
    /\ "h1" \in DOMAIN servers
    /\ "h1" \in DOMAIN connections
    /\ ret["c1"].conn = connections["h1"]
    /\ "h1" \in DOMAIN connections
    /\ is_alive(conn[connections["h1"]])
    /\ conn[connections["h1"]].server_info.enabled
    /\ ~servers["h1"].enabled
    /\ conn[connections["h1"]].server_info.password # servers["h1"].password
    /\ conn[connections["h1"]].server_info.group # servers["h1"].group

====
